---- MODULE Spec2Model ----
(***************************************************************************)
(* Model of the optimistic-rollup engine of src/src/main.rs: the account   *)
(* ledger, the batch processor with its update log, and the fraud-proof    *)
(* generator and verifier that replay the log from an empty genesis.       *)
(*                                                                         *)
(* Representation                                                          *)
(*   Address      a 20-byte array, as a sequence of AddressLen bytes       *)
(*   U256         a 32-byte array, as a sequence of U256Len bytes          *)
(*   Option<T>    None is <<>>, Some(x) is <<x>>                           *)
(*   HashMap      a function whose DOMAIN is the set of keys present       *)
(*   Vec index    the source counts from 0; Vec v at index i is v[i + 1]   *)
(*   Transaction  the fields the code reads (to, value); nonce, gas_price, *)
(*                gas_limit, data, v, r, s are never read by any function  *)
(*   commitment   calculate_state_root feeds address, nonce and balance of *)
(*                the accounts, sorted by address, to a hasher with fixed  *)
(*                keys; the model keeps the byte stream that is fed to the *)
(*                hasher and takes the final 64-bit digest to be           *)
(*                collision-free on it (equal streams give equal digests   *)
(*                in the code as well)                                     *)
(*   panic        verify_fraud_proof indexes without a check; its outcome  *)
(*                is "true", "false" or "panic", and a panic ends the run  *)
(*   nonce        a u64 that starts at 0 and grows by one per transaction; *)
(*                the logs of the model keep it far below 2^64             *)
(***************************************************************************)
EXTENDS Integers, Sequences, FiniteSets, TLC

AddressLen == 20
U256Len == 32
U8Max == 255

\* Number of batches the model processes.
MaxUpdates == 2

None == <<>>
Some(x) == <<x>>

Min(a, b) == IF a <= b THEN a ELSE b
Max(a, b) == IF a >= b THEN a ELSE b

\* [k; 20]
Addr(k) == [i \in 1..AddressLen |-> k]
\* A 32-byte quantity whose last two bytes are hi, lo and whose other bytes are 0.
U256(hi, lo) ==
  [i \in 1..U256Len |-> IF i = U256Len THEN lo ELSE IF i = U256Len - 1 THEN hi ELSE 0]

Addresses == {Addr(0), Addr(1), Addr(2)}
Values == {U256(0, 100), U256(0, 150), U256(1, 100)}

\* The transactions of main, a contract creation, and a transfer to the signer.
tx1 == [to |-> Some(Addr(1)), value |-> U256(0, 100)]
tx2 == [to |-> Some(Addr(2)), value |-> U256(0, 150)]
txCreate == [to |-> None, value |-> U256(0, 100)]
txSelf == [to |-> Some(Addr(0)), value |-> U256(1, 100)]
TxSet == {tx1, tx2, txCreate, txSelf}

Batches ==
  { <<>>, <<tx1>>, <<tx2>>, <<txSelf>>, <<tx2, tx2>>, <<txCreate, tx1>> }

\* Account { nonce: 0, balance: [0; 32] }
DefaultAccount == [nonce |-> 0, balance |-> [i \in 1..U256Len |-> 0]]

\* HashMap::new()
EmptyAccounts == [a \in {} |-> DefaultAccount]

\* The account main inserts before the first batch.
SeededAccounts == [a \in {Addr(0)} |-> [nonce |-> 0, balance |-> U256(0, 200)]]

Seeds == {EmptyAccounts, SeededAccounts}

----
\* u8 arithmetic

\* As saturating_sub, but wrapping (u8::wrapping_sub).
wrapping_sub(a, b) == (a - b) % (U8Max + 1)

saturating_sub(a, b) == IF a >= b THEN a - b ELSE 0
saturating_add(a, b) == IF a + b > U8Max THEN U8Max ELSE a + b

----
\* HashMap operations

\* accounts.entry(addr).or_insert_with(|| Account { nonce: 0, balance: [0; 32] })
or_insert(accounts, addr) ==
  IF addr \in DOMAIN accounts
    THEN accounts
    ELSE [a \in DOMAIN accounts \cup {addr} |->
            IF a = addr THEN DefaultAccount ELSE accounts[a]]

\* accounts.insert(addr, account)
insert(accounts, addr, account) ==
  [a \in DOMAIN accounts \cup {addr} |-> IF a = addr THEN account ELSE accounts[a]]

----
\* Live path

recover_signer(tx) == Addr(0)

\* As transfer, but the debited sender account is not written back.
transfer_no_debit(accounts, from, to, value) ==
  LET a1 == or_insert(accounts, from)
      a2 == or_insert(a1, to)
      to_account == a2[to]
      to_new == [to_account EXCEPT
                   !.balance = [i \in 1..U256Len |-> saturating_add(@[i], value[i])]]
  IN  insert(a2, to, to_new)

transfer(accounts, from, to, value) ==
  LET a1 == or_insert(accounts, from)
      from_account == a1[from]
      a2 == or_insert(a1, to)
      to_account == a2[to]
      from_new == [from_account EXCEPT
                     !.balance = [i \in 1..U256Len |-> saturating_sub(@[i], value[i])]]
      to_new == [to_account EXCEPT
                   !.balance = [i \in 1..U256Len |-> saturating_add(@[i], value[i])]]
      a3 == insert(a2, from, from_new)
  IN  insert(a3, to, to_new)

\* As apply_transaction, but the nonce update materialises the sender.
apply_transaction_entry_nonce(accounts, tx) ==
  LET a1 == IF tx.to # None
              THEN transfer(accounts, recover_signer(tx), tx.to[1], tx.value)
              ELSE accounts
      a2 == or_insert(a1, recover_signer(tx))
  IN  [a2 EXCEPT ![recover_signer(tx)].nonce = @ + 1]

apply_transaction(accounts, tx) ==
  LET a1 == IF tx.to # None
              THEN transfer(accounts, recover_signer(tx), tx.to[1], tx.value)
              ELSE accounts
      signer == recover_signer(tx)
  IN  IF signer \in DOMAIN a1
        THEN [a1 EXCEPT ![signer].nonce = @ + 1]
        ELSE a1

\* a.0.cmp(b.0) on byte arrays: lexicographic order
RECURSIVE address_less(_, _, _)
address_less(a, b, i) ==
  IF i > AddressLen THEN FALSE
  ELSE IF a[i] < b[i] THEN TRUE
  ELSE IF a[i] > b[i] THEN FALSE
  ELSE address_less(a, b, i + 1)

\* sorted_accounts: the keys in ascending order
RECURSIVE sort_addresses(_)
sort_addresses(S) ==
  IF S = {} THEN <<>>
  ELSE LET m == CHOOSE a \in S : \A b \in S \ {a} : address_less(a, b, 1)
       IN  <<m>> \o sort_addresses(S \ {m})

\* The stream hashed for the accounts at the addresses listed in order.
RECURSIVE hash_stream(_, _)
hash_stream(accounts, order) ==
  IF order = <<>> THEN <<>>
  ELSE Head(order) \o <<accounts[Head(order)].nonce>> \o accounts[Head(order)].balance
         \o hash_stream(accounts, Tail(order))

calculate_state_root(accounts) ==
  hash_stream(accounts, sort_addresses(DOMAIN accounts))

\* Vec::insert into a sorted vector, before the first greater address.
RECURSIVE insert_sorted(_, _)
insert_sorted(sorted, a) ==
  IF sorted = <<>> THEN <<a>>
  ELSE IF address_less(a, Head(sorted), 1) THEN <<a>> \o sorted
  ELSE <<Head(sorted)>> \o insert_sorted(Tail(sorted), a)

\* As sort_by, but the vector is left in the order the map iterated.
sort_by_skipped(iterated) == iterated

\* sorted_accounts.sort_by(|a, b| a.0.cmp(b.0)) on the keys in the order
\* self.state.accounts.iter() yielded them.
RECURSIVE sort_by(_)
sort_by(iterated) ==
  IF iterated = <<>> THEN <<>>
  ELSE insert_sorted(sort_by(Tail(iterated)), Head(iterated))

\* calculate_state_root when the HashMap iterates its keys in the order
\* iterated; the order is unspecified and differs between maps and runs.
calculate_state_root_iterated(accounts, iterated) ==
  hash_stream(accounts, sort_by(iterated))

----
\* Replay path

transfer_in_state(accounts, from, to, value) ==
  LET a1 == or_insert(accounts, from)
      from_account == a1[from]
      a2 == or_insert(a1, to)
      to_account == a2[to]
      from_new == [from_account EXCEPT
                     !.balance = [i \in 1..U256Len |-> saturating_sub(@[i], value[i])]]
      to_new == [to_account EXCEPT
                   !.balance = [i \in 1..U256Len |-> saturating_add(@[i], value[i])]]
      a3 == insert(a2, from, from_new)
  IN  insert(a3, to, to_new)

\* As apply_transaction_to_state, but the nonce update materialises the sender.
apply_transaction_to_state_entry_nonce(accounts, tx) ==
  LET a1 == IF tx.to # None
              THEN transfer_in_state(accounts, Addr(0), tx.to[1], tx.value)
              ELSE accounts
      a2 == or_insert(a1, Addr(0))
  IN  [a2 EXCEPT ![Addr(0)].nonce = @ + 1]

apply_transaction_to_state(accounts, tx) ==
  LET a1 == IF tx.to # None
              THEN transfer_in_state(accounts, Addr(0), tx.to[1], tx.value)
              ELSE accounts
  IN  IF Addr(0) \in DOMAIN a1
        THEN [a1 EXCEPT ![Addr(0)].nonce = @ + 1]
        ELSE a1

calculate_state_root_for(accounts) ==
  LET sorted_accounts == sort_addresses(DOMAIN accounts)
  IN  hash_stream(accounts, sorted_accounts)

\* for i in 0..n { apply_transaction_to_state(&mut state, &txs[i]) }
RECURSIVE replay_transactions(_, _, _)
replay_transactions(accounts, txs, n) ==
  IF n = 0 THEN accounts
  ELSE apply_transaction_to_state(replay_transactions(accounts, txs, n - 1), txs[n])

\* for i in 0..n { for tx in &updates[i].transactions { ... } }
RECURSIVE replay_updates(_, _, _)
replay_updates(accounts, updates, n) ==
  IF n = 0 THEN accounts
  ELSE LET before == replay_updates(accounts, updates, n - 1)
       IN  replay_transactions(before, updates[n].transactions,
                               Len(updates[n].transactions))

\* As generate_fraud_proof, but the replay before the disputed update covers
\* every update of the log except the last one, not the updates before it.
generate_fraud_proof_whole_log(updates, update_index, fraudulent_tx_index) ==
  IF update_index >= Len(updates) THEN None
  ELSE LET update == updates[update_index + 1] IN
    IF fraudulent_tx_index >= Len(update.transactions) THEN None
    ELSE LET fraudulent_tx == update.transactions[fraudulent_tx_index + 1]
             before == replay_updates(EmptyAccounts, updates, Len(updates) - 1)
             pre_fraud_state ==
               replay_transactions(before, update.transactions, fraudulent_tx_index)
             post_fraud_state == apply_transaction_to_state(pre_fraud_state, fraudulent_tx)
         IN  Some([update_index |-> update_index,
                   fraudulent_tx_index |-> fraudulent_tx_index,
                   pre_fraud_root |-> calculate_state_root_for(pre_fraud_state),
                   post_fraud_root |-> calculate_state_root_for(post_fraud_state),
                   fraudulent_tx |-> fraudulent_tx])

\* As generate_fraud_proof, but an index past the last transaction of the update
\* is taken to mean the last transaction.
generate_fraud_proof_clamped(updates, update_index, fraudulent_tx_index) ==
  IF update_index >= Len(updates) THEN None
  ELSE LET update == updates[update_index + 1] IN
    IF Len(update.transactions) = 0 THEN None
    ELSE LET index == Min(fraudulent_tx_index, Len(update.transactions) - 1)
             fraudulent_tx == update.transactions[index + 1]
             before == replay_updates(EmptyAccounts, updates, update_index)
             pre_fraud_state == replay_transactions(before, update.transactions, index)
             post_fraud_state == apply_transaction_to_state(pre_fraud_state, fraudulent_tx)
         IN  Some([update_index |-> update_index,
                   fraudulent_tx_index |-> index,
                   pre_fraud_root |-> calculate_state_root_for(pre_fraud_state),
                   post_fraud_root |-> calculate_state_root_for(post_fraud_state),
                   fraudulent_tx |-> fraudulent_tx])

generate_fraud_proof(updates, update_index, fraudulent_tx_index) ==
  IF update_index >= Len(updates) THEN None
  ELSE LET update == updates[update_index + 1] IN
    IF fraudulent_tx_index >= Len(update.transactions) THEN None
    ELSE LET fraudulent_tx == update.transactions[fraudulent_tx_index + 1]
             before == replay_updates(EmptyAccounts, updates, update_index)
             pre_fraud_state ==
               replay_transactions(before, update.transactions, fraudulent_tx_index)
             post_fraud_state == apply_transaction_to_state(pre_fraud_state, fraudulent_tx)
         IN  Some([update_index |-> update_index,
                   fraudulent_tx_index |-> fraudulent_tx_index,
                   pre_fraud_root |-> calculate_state_root_for(pre_fraud_state),
                   post_fraud_root |-> calculate_state_root_for(post_fraud_state),
                   fraudulent_tx |-> fraudulent_tx])

\* As verify_fraud_proof, but the replay runs through the disputed transaction
\* (0..=fraudulent_tx_index).
verify_fraud_proof_inclusive(updates, proof) ==
  IF proof.update_index >= Len(updates) THEN "panic"
  ELSE LET update == updates[proof.update_index + 1] IN
    IF proof.fraudulent_tx_index >= Len(update.transactions) THEN "panic"
    ELSE LET before == replay_updates(EmptyAccounts, updates, proof.update_index)
             pre_fraud_state ==
               replay_transactions(before, update.transactions, proof.fraudulent_tx_index + 1)
             post_state == apply_transaction_to_state(pre_fraud_state, proof.fraudulent_tx)
         IN  IF calculate_state_root_for(pre_fraud_state) # proof.pre_fraud_root THEN "false"
             ELSE IF calculate_state_root_for(post_state) = proof.post_fraud_root THEN "true"
             ELSE "false"

\* As verify_fraud_proof, without the comparison of the pre-fraud root.
verify_fraud_proof_no_pre_check(updates, proof) ==
  IF proof.update_index >= Len(updates) THEN "panic"
  ELSE LET update == updates[proof.update_index + 1] IN
    IF proof.fraudulent_tx_index > Len(update.transactions) THEN "panic"
    ELSE LET before == replay_updates(EmptyAccounts, updates, proof.update_index)
             pre_fraud_state ==
               replay_transactions(before, update.transactions, proof.fraudulent_tx_index)
             post_state == apply_transaction_to_state(pre_fraud_state, proof.fraudulent_tx)
         IN  IF calculate_state_root_for(post_state) = proof.post_fraud_root THEN "true"
             ELSE "false"

\* As verify_fraud_proof, but the transaction applied is the one of the log.
verify_fraud_proof_log_tx(updates, proof) ==
  IF proof.update_index >= Len(updates) THEN "panic"
  ELSE LET update == updates[proof.update_index + 1] IN
    IF proof.fraudulent_tx_index >= Len(update.transactions) THEN "panic"
    ELSE LET before == replay_updates(EmptyAccounts, updates, proof.update_index)
             pre_fraud_state ==
               replay_transactions(before, update.transactions, proof.fraudulent_tx_index)
             post_state ==
               apply_transaction_to_state(pre_fraud_state,
                                          update.transactions[proof.fraudulent_tx_index + 1])
         IN  IF calculate_state_root_for(pre_fraud_state) # proof.pre_fraud_root THEN "false"
             ELSE IF calculate_state_root_for(post_state) = proof.post_fraud_root THEN "true"
             ELSE "false"

\* As verify_fraud_proof, but the post-fraud root is taken without applying the
\* transaction of the proof.
verify_fraud_proof_no_apply(updates, proof) ==
  IF proof.update_index >= Len(updates) THEN "panic"
  ELSE LET update == updates[proof.update_index + 1] IN
    IF proof.fraudulent_tx_index > Len(update.transactions) THEN "panic"
    ELSE LET before == replay_updates(EmptyAccounts, updates, proof.update_index)
             pre_fraud_state ==
               replay_transactions(before, update.transactions, proof.fraudulent_tx_index)
         IN  IF calculate_state_root_for(pre_fraud_state) # proof.pre_fraud_root THEN "false"
             ELSE IF calculate_state_root_for(pre_fraud_state) = proof.post_fraud_root
               THEN "true"
             ELSE "false"

\* "true" / "false": the value returned; "panic": an index out of bounds.
verify_fraud_proof(updates, proof) ==
  IF proof.update_index >= Len(updates) THEN "panic"
  ELSE LET update == updates[proof.update_index + 1] IN
    IF proof.fraudulent_tx_index > Len(update.transactions) THEN "panic"
    ELSE LET before == replay_updates(EmptyAccounts, updates, proof.update_index)
             pre_fraud_state ==
               replay_transactions(before, update.transactions, proof.fraudulent_tx_index)
             calculated_pre_fraud_root == calculate_state_root_for(pre_fraud_state)
             post_state == apply_transaction_to_state(pre_fraud_state, proof.fraudulent_tx)
             calculated_post_fraud_root == calculate_state_root_for(post_state)
         IN  IF calculated_pre_fraud_root # proof.pre_fraud_root THEN "false"
             ELSE IF calculated_post_fraud_root = proof.post_fraud_root THEN "true"
             ELSE "false"

----
\* The rollup and its caller

\* The rollup, and what its caller has seen since the last batch was processed:
\* the generate_fraud_proof call it made and the verify_fraud_proof call it made
\* on the proof returned.
VARIABLES
  state,          \* rollup.state.accounts
  state_updates,  \* rollup.state_updates
  request,        \* Some(<<update_index, fraudulent_tx_index>>) of the generate call
  proof,          \* the Option<FraudProof> that call returned
  submitted,      \* Some(proof handed to verify_fraud_proof)
  verdict         \* the outcome of that call: "none", "true", "false", "panic"

vars == <<state, state_updates, request, proof, submitted, verdict>>

\* The longest batch.
MaxBatchLen == CHOOSE n \in {Len(b) : b \in Batches} : \A b \in Batches : Len(b) <= n

\* The number of transactions of update number u (counted from 0), 0 if there is none.
TxCount(updates, u) == IF u < Len(updates) THEN Len(updates[u + 1].transactions) ELSE 0

\* The proofs a caller hands to verify_fraud_proof: the proof as generated, and
\* proofs that differ from it in one field (a commitment, the value of the
\* transaction, an index moved to the first or second position past the end).
Submissions(updates, p) ==
  {p}
  \cup {[p EXCEPT !.pre_fraud_root = r] :
          r \in {calculate_state_root_for(SeededAccounts), p.post_fraud_root}}
  \cup {[p EXCEPT !.post_fraud_root = r] :
          r \in {calculate_state_root_for(SeededAccounts), p.pre_fraud_root}}
  \cup {[p EXCEPT !.fraudulent_tx.value = v] : v \in Values}
  \cup {[p EXCEPT !.update_index = Len(updates)]}
  \cup {[p EXCEPT !.fraudulent_tx_index = TxCount(updates, p.update_index) + d] : d \in {0, 1}}

\* OptimisticRollup::new(), then main's optional seeding of the account store.
Init ==
  /\ state \in Seeds
  /\ state_updates = <<>>
  /\ request = None
  /\ proof = None
  /\ submitted = None
  /\ verdict = "none"

\* As apply_batch, but the batch is walked from its last transaction to its first.
RECURSIVE apply_batch_reversed(_, _, _)
apply_batch_reversed(accounts, transactions, n) ==
  IF n = 0 THEN accounts
  ELSE apply_batch_reversed(apply_transaction(accounts, transactions[n]), transactions, n - 1)

\* for tx in &transactions { self.apply_transaction(tx) }
RECURSIVE apply_batch(_, _, _)
apply_batch(accounts, transactions, n) ==
  IF n = 0 THEN accounts
  ELSE apply_transaction(apply_batch(accounts, transactions, n - 1), transactions[n])

\* As ProcessTransactionBatch, but the entry is put at the front of the log.
ProcessTransactionBatch_prepend(transactions) ==
  /\ verdict # "panic"
  /\ Len(state_updates) < MaxUpdates
  /\ LET old_state_root == calculate_state_root(state)
         applied == apply_batch(state, transactions, Len(transactions))
         new_state_root == calculate_state_root(applied)
     IN  /\ state' = applied
         /\ state_updates' = <<[transactions |-> transactions,
                                old_state_root |-> old_state_root,
                                new_state_root |-> new_state_root]>> \o state_updates
  /\ request' = None
  /\ proof' = None
  /\ submitted' = None
  /\ verdict' = "none"

\* As ProcessTransactionBatch, but both roots are taken before the batch is applied.
ProcessTransactionBatch_early_root(transactions) ==
  /\ verdict # "panic"
  /\ Len(state_updates) < MaxUpdates
  /\ LET old_state_root == calculate_state_root(state)
         new_state_root == calculate_state_root(state)
         applied == apply_batch(state, transactions, Len(transactions))
     IN  /\ state' = applied
         /\ state_updates' = Append(state_updates,
                                    [transactions |-> transactions,
                                     old_state_root |-> old_state_root,
                                     new_state_root |-> new_state_root])
  /\ request' = None
  /\ proof' = None
  /\ submitted' = None
  /\ verdict' = "none"

ProcessTransactionBatch(transactions) ==
  /\ verdict # "panic"
  /\ Len(state_updates) < MaxUpdates
  /\ LET old_state_root == calculate_state_root(state)
         applied == apply_batch(state, transactions, Len(transactions))
         new_state_root == calculate_state_root(applied)
     IN  /\ state' = applied
         /\ state_updates' = Append(state_updates,
                                    [transactions |-> transactions,
                                     old_state_root |-> old_state_root,
                                     new_state_root |-> new_state_root])
  /\ request' = None
  /\ proof' = None
  /\ submitted' = None
  /\ verdict' = "none"

\* As GenerateFraudProof, but the replay is written into the rollup's own state.
GenerateFraudProof_in_place(update_index, fraudulent_tx_index) ==
  /\ verdict # "panic"
  /\ request' = Some(<<update_index, fraudulent_tx_index>>)
  /\ proof' = generate_fraud_proof(state_updates, update_index, fraudulent_tx_index)
  /\ state' = replay_updates(EmptyAccounts, state_updates,
                             Min(update_index, Len(state_updates)))
  /\ submitted' = None
  /\ verdict' = "none"
  /\ UNCHANGED state_updates

GenerateFraudProof(update_index, fraudulent_tx_index) ==
  /\ verdict # "panic"
  /\ request' = Some(<<update_index, fraudulent_tx_index>>)
  /\ proof' = generate_fraud_proof(state_updates, update_index, fraudulent_tx_index)
  /\ submitted' = None
  /\ verdict' = "none"
  /\ UNCHANGED <<state, state_updates>>

VerifyFraudProof(p) ==
  /\ verdict # "panic"
  /\ submitted' = Some(p)
  /\ verdict' = verify_fraud_proof(state_updates, p)
  /\ UNCHANGED <<state, state_updates, request, proof>>

\* if let Some(fraud_proof) = ... { rollup.verify_fraud_proof(&fraud_proof) }, on the
\* proof returned or on a proof altered in one field.
SubmitFraudProof ==
  /\ proof # None
  /\ \E p \in Submissions(state_updates, proof[1]) : VerifyFraudProof(p)

Next ==
  \/ \E transactions \in Batches : ProcessTransactionBatch(transactions)
  \/ \E u \in 0..MaxUpdates, t \in 0..MaxBatchLen : GenerateFraudProof(u, t)
  \/ SubmitFraudProof

Spec == Init /\ [][Next]_vars

TypeOK ==
  /\ DOMAIN state \subseteq Addresses
  /\ Len(state_updates) <= MaxUpdates
  /\ verdict \in {"none", "true", "false", "panic"}

----
\* Vocabulary of the properties

\* The in-range <<update_index, fraudulent_tx_index>> pairs of a log.
ValidPairs(updates) ==
  {pair \in (0..(Len(updates) - 1)) \X (0..MaxBatchLen) : pair[2] < TxCount(updates, pair[1])}

\* The transactions of the log before position (u, t), in order.
RECURSIVE PrefixTxs(_, _, _)
PrefixTxs(updates, u, t) ==
  IF u = 0 THEN SubSeq(updates[1].transactions, 1, t)
  ELSE PrefixTxs(updates, u - 1, Len(updates[u].transactions))
         \o SubSeq(updates[u + 1].transactions, 1, t)

\* The state the transactions txs, head first, lead to on the replay path.
RECURSIVE Fold(_, _)
Fold(accounts, txs) ==
  IF txs = <<>> THEN accounts
  ELSE Fold(apply_transaction_to_state(accounts, Head(txs)), Tail(txs))

\* The state replayed from the empty genesis up to position (u, t).
PreState(u, t) == Fold(EmptyAccounts, PrefixTxs(state_updates, u, t))

\* Every transaction over the modelled recipients and values.
AllTxs == [to : {None} \cup {Some(a) : a \in Addresses}, value : Values]

\* The account of an address, absent accounts read as the default account.
AccountOf(accounts, a) == IF a \in DOMAIN accounts THEN accounts[a] ELSE DefaultAccount

\* The number of transactions in the log.
RECURSIVE TotalTxs(_)
TotalTxs(updates) ==
  IF updates = <<>> THEN 0
  ELSE Len(updates[Len(updates)].transactions) + TotalTxs(SubSeq(updates, 1, Len(updates) - 1))

\* The caller asked for an in-range pair.
RequestInRange == request # None /\ request[1] \in ValidPairs(state_updates)

\* The proof handed to verify differs from the generated proof p in exactly one field.
OnlyPreRootDiffers(q, p) ==
  q.pre_fraud_root # p.pre_fraud_root /\ [q EXCEPT !.pre_fraud_root = p.pre_fraud_root] = p
OnlyPostRootDiffers(q, p) ==
  q.post_fraud_root # p.post_fraud_root /\ [q EXCEPT !.post_fraud_root = p.post_fraud_root] = p
OnlyValueDiffers(q, p) ==
  /\ q.fraudulent_tx.value # p.fraudulent_tx.value
  /\ [q EXCEPT !.fraudulent_tx.value = p.fraudulent_tx.value] = p

\* A proof whose indices lie outside the log.
OutOfBounds(updates, p) ==
  \/ p.update_index >= Len(updates)
  \/ p.fraudulent_tx_index >= TxCount(updates, p.update_index)

\* verify_fraud_proof was called on a proof that differs from the generated one
\* in the value of the disputed transaction only.
ValueTampered ==
  proof # None /\ submitted # None /\ OnlyValueDiffers(submitted[1], proof[1])

----
\* C1. Chain invariant: in every state reached by processing batches from an
\* empty or seeded account store, each log entry's new_state_root equals the
\* next entry's old_state_root.
ChainInvariant ==
  \A i \in 1..(Len(state_updates) - 1) :
    state_updates[i].new_state_root = state_updates[i + 1].old_state_root

\* Two batches were processed and each of them changed the commitment.
ChainWitness ==
  /\ Len(state_updates) >= 2
  /\ state_updates[1].old_state_root # state_updates[1].new_state_root
  /\ state_updates[2].old_state_root # state_updates[2].new_state_root

\* C2. Fraud-proof round trip: in every reachable state, a generate_fraud_proof
\* call with an in-range (update_index, tx_index) returns a proof, and
\* verify_fraud_proof on that proof as returned gives true.
FraudProofRoundTrip ==
  /\ RequestInRange => proof # None
  /\ (RequestInRange /\ submitted # None /\ submitted = proof) => verdict = "true"

\* A proof of the second transaction of a batch, which changes the commitment,
\* was generated and verified as it is.
RoundTripWitness ==
  /\ RequestInRange
  /\ proof # None
  /\ submitted = proof
  /\ verdict = "true"
  /\ proof[1].pre_fraud_root # proof[1].post_fraud_root
  /\ proof[1].fraudulent_tx_index > 0

\* C3. Tamper detection on commitments: for every generated proof, replacing
\* only pre_fraud_root, or only post_fraud_root, by a different value makes
\* verify_fraud_proof return false.
CommitmentTamperDetected ==
  (/\ proof # None
   /\ submitted # None
   /\ \/ OnlyPreRootDiffers(submitted[1], proof[1])
      \/ OnlyPostRootDiffers(submitted[1], proof[1]))
  => verdict = "false"

\* A proof with only its pre-fraud root replaced by its post-fraud root was
\* verified and rejected.
CommitmentTamperWitness ==
  /\ proof # None
  /\ submitted # None
  /\ OnlyPreRootDiffers(submitted[1], proof[1])
  /\ submitted[1].pre_fraud_root = proof[1].post_fraud_root
  /\ verdict = "false"

\* C4 as claimed. For every generated proof, replacing only the value of the
\* disputed transaction by a different value makes verify_fraud_proof return false.
ValueTamperDetected ==
  ValueTampered => verdict = "false"

\* C4 as amended. For every generated proof, replacing only the value of the
\* disputed transaction by a different value makes verify_fraud_proof return
\* false exactly when the altered transaction takes the replayed pre-fraud state
\* to a commitment other than the one the original transaction gives. It returns
\* true whenever both leave the same account state: for every contract
\* creation, and for a transfer to another account whose bytes clamp alike
\* under both values.
ValueTamperDetectedIfStateDiffers ==
  ValueTampered =>
    LET pre == PreState(proof[1].update_index, proof[1].fraudulent_tx_index)
        original == proof[1].fraudulent_tx
        altered == submitted[1].fraudulent_tx
        sender == AccountOf(pre, Addr(0)).balance
    IN  /\ (verdict = "false") <=>
             (calculate_state_root_for(Fold(pre, <<altered>>))
                # calculate_state_root_for(Fold(pre, <<original>>)))
        /\ verdict \in {"true", "false"}
        /\ original.to = None => verdict = "true"
        /\ (/\ original.to # None
            /\ original.to # Some(Addr(0))
            /\ \A i \in 1..U256Len :
                 /\ saturating_sub(sender[i], altered.value[i])
                      = saturating_sub(sender[i], original.value[i])
                 /\ saturating_add(AccountOf(pre, original.to[1]).balance[i], altered.value[i])
                      = saturating_add(AccountOf(pre, original.to[1]).balance[i],
                                       original.value[i]))
           => verdict = "true"

\* A proof of a transfer with only the value replaced was verified and rejected.
ValueTamperWitness ==
  /\ ValueTampered
  /\ proof[1].fraudulent_tx.to # None
  /\ verdict = "false"

\* C5. Out-of-range generate: generate_fraud_proof with update_index at or past
\* the log length, or tx_index at or past the update's transaction count,
\* returns None, does not fault, and leaves the account state and the log as
\* they were.
GenerateOutOfRange ==
  [][(/\ request' # None
      /\ submitted' = None
      /\ request'[1] \notin ValidPairs(state_updates))
     => /\ proof' = None
        /\ verdict' # "panic"
        /\ state' = state
        /\ state_updates' = state_updates]_vars

\* The log holds transactions, and a generate call for an update of the log
\* with a transaction index past its end has returned None.
GenerateOutOfRangeWitness ==
  /\ TotalTxs(state_updates) >= 1
  /\ request # None
  /\ submitted = None
  /\ request[1][1] < Len(state_updates)
  /\ request[1] \notin ValidPairs(state_updates)
  /\ proof = None

\* C6 as claimed. verify_fraud_proof on a proof whose update_index is at or past
\* the log length, or whose fraudulent_tx_index is at or past the update's
\* transaction count, returns false: it neither panics nor returns true.
VerifyOutOfBoundsRejected ==
  (submitted # None /\ OutOfBounds(state_updates, submitted[1])) => verdict = "false"

\* C7 as claimed. Every processed transaction raises the nonce of its sender by
\* one: the sender, whose nonce is 0 or absent in every initial state, has a
\* nonce equal to the number of transactions processed.
NonceMonotonicity ==
  AccountOf(state, Addr(0)).nonce = TotalTxs(state_updates)

\* C8 as claimed. For every from, to (to = from included) and value, transfer
\* and transfer_in_state store from.balance[i] = max(0, old from.balance[i] -
\* value[i]) and to.balance[i] = min(255, old to.balance[i] + value[i]) for
\* every byte i, absent accounts read as {nonce 0, balance 0}.
ByteLocalSaturatingTransfer ==
  \A from \in Addresses, to \in Addresses, value \in Values :
    LET after == transfer(state, from, to, value)
        after_replay == transfer_in_state(state, from, to, value)
        old_from == AccountOf(state, from).balance
        old_to == AccountOf(state, to).balance
    IN  \A i \in 1..U256Len :
          /\ after[from].balance[i] = Max(0, old_from[i] - value[i])
          /\ after[to].balance[i] = Min(U8Max, old_to[i] + value[i])
          /\ after_replay[from].balance[i] = Max(0, old_from[i] - value[i])
          /\ after_replay[to].balance[i] = Min(U8Max, old_to[i] + value[i])

\* C9. Read-only fraud proofs: a generate_fraud_proof or verify_fraud_proof call
\* that returns leaves the account state and every log entry as they were.
ReadOnlyFraudProofs ==
  [][(request' # None /\ verdict' # "panic")
     => (state' = state /\ state_updates' = state_updates)]_vars

\* A proof was generated and verified while the rollup's own state differs from
\* the state the replay of the whole log reaches.
ReadOnlyWitness ==
  /\ proof # None
  /\ submitted = proof
  /\ verdict = "true"
  /\ state # replay_updates(EmptyAccounts, state_updates, Len(state_updates))

\* C10. Live path and replay path agree: for every account state the rollup
\* reaches and every transaction, apply_transaction and
\* apply_transaction_to_state give the same account state, and
\* calculate_state_root and calculate_state_root_for give the same commitment.
LiveReplayAgree ==
  /\ calculate_state_root(state) = calculate_state_root_for(state)
  /\ \A tx \in AllTxs :
       apply_transaction(state, tx) = apply_transaction_to_state(state, tx)

\* From an empty store, the batches applied live left the state the replay of
\* the whole log reaches, and it holds more than one account.
LiveReplayWitness ==
  /\ Len(state_updates) >= 2
  /\ Cardinality(DOMAIN state) >= 2
  /\ state = replay_updates(EmptyAccounts, state_updates, Len(state_updates))

\* C11. Append-only log: every process_transaction_batch call makes the log
\* one entry longer, and no operation removes or changes an entry the log
\* already holds or moves it to another position.
AppendOnlyLog ==
  [][/\ Len(state_updates') >= Len(state_updates)
     /\ SubSeq(state_updates', 1, Len(state_updates)) = state_updates
     /\ request' = None => Len(state_updates') = Len(state_updates) + 1
     /\ request' # None => state_updates' = state_updates]_vars

\* Two batches are in the log, and a proof for the first was generated and
\* verified after the second was appended.
AppendOnlyWitness ==
  /\ Len(state_updates) >= 2
  /\ state_updates[1].transactions # <<>>
  /\ request = Some(<<0, 0>>)
  /\ proof # None
  /\ verdict = "true"

\* C12. Verifier acceptance rule: for every proof with in-range indices,
\* verify_fraud_proof returns true if and only if the commitment of the state
\* replayed from the empty genesis up to (update_index, fraudulent_tx_index)
\* equals proof.pre_fraud_root and the commitment after applying the
\* transaction embedded in the proof to that state equals proof.post_fraud_root.
VerifierAcceptanceRule ==
  (submitted # None /\ ~OutOfBounds(state_updates, submitted[1])) =>
    LET q == submitted[1]
        pre == PreState(q.update_index, q.fraudulent_tx_index)
    IN  /\ verdict \in {"true", "false"}
        /\ (verdict = "true") <=>
             (/\ calculate_state_root_for(pre) = q.pre_fraud_root
              /\ calculate_state_root_for(Fold(pre, <<q.fraudulent_tx>>)) = q.post_fraud_root)

\* A proof of a transfer whose value was replaced, so that the transaction it
\* carries is not the one of the log, was verified and accepted.
VerifierAcceptanceWitness ==
  /\ ValueTampered
  /\ ~OutOfBounds(state_updates, submitted[1])
  /\ submitted[1].fraudulent_tx.to # None
  /\ submitted[1].pre_fraud_root # submitted[1].post_fraud_root
  /\ verdict = "true"

\* The log starts with main's seeded account and main's first batch.
ScenarioFirstBatch ==
  /\ Len(state_updates) >= 1
  /\ state_updates[1].old_state_root = calculate_state_root(SeededAccounts)
  /\ state_updates[1].transactions = <<tx1>>

\* The log is exactly main's two batches from main's seeded account.
ScenarioBothBatches ==
  /\ ScenarioFirstBatch
  /\ Len(state_updates) = 2
  /\ state_updates[2].transactions = <<tx2>>

\* C13. Concrete scenario: from account 0x00..00 seeded with balance byte31 =
\* 200, the batch [transfer 100 to 0x01..01] leaves 0x00..00 with byte31 = 100
\* and nonce 1 and 0x01..01 with byte31 = 100; the batch [transfer 150 to
\* 0x02..02] then leaves 0x00..00 with byte31 = 0 and 0x02..02 with byte31 =
\* 150; generate_fraud_proof(1, 0) returns a proof and verify_fraud_proof on it
\* returns true.
ConcreteScenario ==
  /\ (ScenarioFirstBatch /\ Len(state_updates) = 1) =>
       /\ DOMAIN state = {Addr(0), Addr(1)}
       /\ state[Addr(0)].balance = U256(0, 100)
       /\ state[Addr(0)].nonce = 1
       /\ state[Addr(1)].balance = U256(0, 100)
  /\ ScenarioBothBatches =>
       /\ DOMAIN state = {Addr(0), Addr(1), Addr(2)}
       /\ state[Addr(0)].balance = U256(0, 0)
       /\ state[Addr(2)].balance = U256(0, 150)
       /\ request = Some(<<1, 0>>) =>
            /\ proof # None
            /\ (submitted # None /\ submitted = proof) => verdict = "true"

\* main has run to its end: both batches processed, the proof for (1, 0)
\* generated and verified.
ConcreteScenarioWitness ==
  /\ ScenarioBothBatches
  /\ request = Some(<<1, 0>>)
  /\ proof # None
  /\ submitted = proof
  /\ verdict = "true"

\* The orders in which a map with the keys S can iterate them.
IterationOrders(S) ==
  {o \in [1..Cardinality(S) -> S] : \A a \in S : \E i \in 1..Cardinality(S) : o[i] = a}

\* C14. Determinism: the commitment of an account state does not depend on the
\* order in which the account map iterates, so every replayer that reaches the
\* state the rollup reached by its batches computes the commitment the rollup
\* computed, and the one the log records.
CommitmentDeterminism ==
  /\ \A iterated \in IterationOrders(DOMAIN state) :
       calculate_state_root_iterated(state, iterated) = calculate_state_root(state)
  /\ Len(state_updates) >= 1 =>
       \A iterated \in IterationOrders(DOMAIN state) :
         calculate_state_root_iterated(state, iterated)
           = state_updates[Len(state_updates)].new_state_root

\* Batches were processed into a state of three accounts, which a map can
\* iterate in six orders.
CommitmentDeterminismWitness ==
  /\ Len(state_updates) >= 2
  /\ Cardinality(DOMAIN state) = Cardinality(Addresses)
  /\ Cardinality(IterationOrders(DOMAIN state)) > Cardinality(Addresses)

\* The state the transactions txs, head first, lead to on the live path.
RECURSIVE LiveFold(_, _)
LiveFold(accounts, txs) ==
  IF txs = <<>> THEN accounts
  ELSE LiveFold(apply_transaction(accounts, Head(txs)), Tail(txs))

\* C15. Batch step: process_transaction_batch(batch) appends an entry whose
\* old_state_root is the commitment of the state before the call, whose
\* transactions are the batch, and whose new_state_root is the commitment of
\* the state reached by applying the transactions of the batch one after
\* another in batch order; that state is the state after the call. An empty
\* batch appends an entry whose two roots are equal.
BatchStep ==
  [][(request' = None /\ Len(state_updates') = Len(state_updates) + 1) =>
       LET entry == state_updates'[Len(state_updates')]
       IN  /\ entry.transactions \in Batches
           /\ entry.old_state_root = calculate_state_root(state)
           /\ state' = LiveFold(state, entry.transactions)
           /\ entry.new_state_root = calculate_state_root(LiveFold(state, entry.transactions))
           /\ entry.transactions = <<>> =>
                (entry.old_state_root = entry.new_state_root /\ state' = state)]_vars

\* An empty batch and a batch of two transactions, in which the second sees
\* the effect of the first, were processed.
BatchStepWitness ==
  /\ Len(state_updates) >= 2
  /\ state_updates[1].transactions = <<tx2, tx2>>
  /\ state[Addr(2)].balance = U256(0, U8Max)
  /\ state_updates[2].transactions = <<>>
  /\ state_updates[2].old_state_root = state_updates[2].new_state_root

\* The transactions without a recipient.
ContractCreations == {tx \in AllTxs : tx.to = None}

\* The accounts differ at most in the nonce of the sender.
SameButSenderNonce(before, after, sender) ==
  /\ DOMAIN after = DOMAIN before
  /\ \A a \in DOMAIN before :
       /\ after[a].balance = before[a].balance
       /\ a # sender => after[a].nonce = before[a].nonce

\* C16. Contract-creation frame: applying a transaction without a recipient,
\* on the live path or on the replay path, changes no balance and adds no
\* account; it changes at most the nonce of the sender.
ContractCreationFrame ==
  \A tx \in ContractCreations :
    /\ SameButSenderNonce(state, apply_transaction(state, tx), recover_signer(tx))
    /\ SameButSenderNonce(state, apply_transaction_to_state(state, tx), Addr(0))

\* A batch that starts with a contract creation was processed: on the replay
\* path, from the empty genesis, the creation left the commitment as it was.
ContractCreationWitness ==
  /\ Len(state_updates) >= 1
  /\ state_updates[1].transactions = <<txCreate, tx1>>
  /\ request = Some(<<0, 0>>)
  /\ proof # None
  /\ proof[1].fraudulent_tx.to = None
  /\ proof[1].pre_fraud_root = proof[1].post_fraud_root
  /\ DOMAIN state # {}

\* C17. Replay reconstructs the recorded history: from the empty or from an
\* externally seeded initial state, for every update with at least one
\* transaction, the pre_fraud_root of the proof for its first transaction is the
\* recorded old_state_root, and the post_fraud_root of the proof for its last
\* transaction is the recorded new_state_root.
ReplayReconstructsHistory ==
  (RequestInRange /\ proof # None) =>
    LET u == request[1][1]
        t == request[1][2]
        update == state_updates[u + 1]
    IN  /\ t = 0 => proof[1].pre_fraud_root = update.old_state_root
        /\ t = Len(update.transactions) - 1 =>
             proof[1].post_fraud_root = update.new_state_root

\* C18. Proof stability under appends: the proof generate_fraud_proof returned
\* for an in-range pair, and the result verify_fraud_proof returned for an
\* in-range proof, are what the same calls return after a further batch was
\* processed, whatever that batch did to the accounts.
ProofStability ==
  [][Len(state_updates') = Len(state_updates) + 1 =>
       /\ RequestInRange =>
            generate_fraud_proof(state_updates', request[1][1], request[1][2]) = proof
       /\ (submitted # None /\ ~OutOfBounds(state_updates, submitted[1])) =>
            verify_fraud_proof(state_updates', submitted[1]) = verdict]_vars

\* A proof for the first of two updates was generated and accepted after the
\* second update had changed the accounts and the log.
ProofStabilityWitness ==
  /\ Len(state_updates) >= 2
  /\ state_updates[2].old_state_root # state_updates[2].new_state_root
  /\ request = Some(<<0, 1>>)
  /\ proof # None
  /\ submitted = proof
  /\ verdict = "true"

\* No byte of the transfer is clamped: the sender holds value[i] in every byte
\* and the recipient has room for it.
NoClamping(accounts, from, to, value) ==
  \A i \in 1..U256Len :
    /\ value[i] <= AccountOf(accounts, from).balance[i]
    /\ AccountOf(accounts, to).balance[i] + value[i] <= U8Max

\* The transfer took accounts to after: the per-byte sum of the two balances is
\* kept and every other account is as it was.
Conserved(accounts, after, from, to) ==
  /\ \A i \in 1..U256Len :
       after[from].balance[i] + after[to].balance[i]
         = AccountOf(accounts, from).balance[i] + AccountOf(accounts, to).balance[i]
  /\ DOMAIN after = DOMAIN accounts \cup {from, to}
  /\ \A a \in DOMAIN accounts \ {from, to} : after[a] = accounts[a]

\* C19. Conservation without clamping: a transfer between two different
\* accounts in which no byte is clamped keeps the per-byte sum of the two
\* balances and changes no other account, on the live and on the replay path.
ConservationWithoutClamping ==
  \A from \in Addresses, to \in Addresses, value \in Values :
    (from # to /\ NoClamping(state, from, to, value)) =>
      /\ Conserved(state, transfer(state, from, to, value), from, to)
      /\ Conserved(state, transfer_in_state(state, from, to, value), from, to)

\* The seeded sender paid 100 of its 200 to a new account, no byte clamped.
ConservationWitness ==
  /\ Len(state_updates) = 1
  /\ state_updates[1].transactions = <<tx1>>
  /\ Addr(1) \in DOMAIN state
  /\ state[Addr(0)].balance = U256(0, 100)
  /\ state[Addr(1)].balance = U256(0, 100)
  /\ NoClamping(state, Addr(0), Addr(1), U256(0, 100))

====
